---- MODULE Spec2Model ----
(***************************************************************************)
(* The catalog-driven raster access pipeline of the Landsat cookbook: the   *)
(* code cells of the two data-ingestion notebooks, each notebook run top   *)
(* to bottom against a remote STAC service.                                *)
(*   nb = "geo"    notebooks/1.0_Data_Ingestion-Geospatial.ipynb           *)
(*                 (pystac-client, odc-stac)                               *)
(*   nb = "intake" the general-purpose tooling notebook (Intake)           *)
(* The service's content, its reachability, the resolver's answer and the  *)
(* option picked in the preview widget are the environment; every code     *)
(* cell is one action.                                                     *)
(*                                                                         *)
(* Python sequences are 0-based: items[1] is the SECOND item, At(items,1). *)
(***************************************************************************)
EXTENDS Integers, Sequences, FiniteSets, TLC

\* ------------------------------------------------------------------ bounds

\* Longest item list the remote collection holds.
MaxItems == 3

\* ------------------------------------------------------- search parameters

\* bbox = [-118.89, 38.54, -118.57, 38.84], in hundredths of a degree
\* (min-lon, min-lat, max-lon, max-lat).
bbox == <<-11889, 3854, -11857, 3884>>

\* datetime = "2017-06-01/2017-09-30", as <<yyyymmdd, yyyymmdd>>.
datetime == <<20170601, 20170930>>

collection == "landsat-c2-l2"

platform == "landsat-8"

cloudy_less_than == 1

bands_of_interest == <<"red", "green", "blue">>

\* ------------------------------------------------------------- the service

\* Python's None, for names bound to strings.
None == "None"

\* A name not bound yet: to an index, to a Dataset or DataArray.
NoIndex == 0 - 1

Unbound == [unbound |-> TRUE]

\* The assets every item of the collection carries, in the order the item
\* lists them (selected_item.assets).
AssetOrder == <<"blue", "green", "red", "nir08", "rendered_preview">>

AssetNames == {AssetOrder[k] : k \in 1..Len(AssetOrder)}

\* Footprints of remote items, same units as bbox: one covering the box, one
\* overlapping it in part, one away from it.
FootCover == <<-12000, 3700, -11700, 4000>>

FootPartial == <<-11870, 3860, -11700, 4000>>

FootDisjoint == <<-11500, 3700, -11300, 3900>>

\* What the service stores of an item, its id apart.
Kind(t, c, p, f) == [time |-> t, cloud |-> c, platform |-> p, foot |-> f]

\* Items the search accepts (both ends of the interval, both footprints that
\* meet the box) and items that fail exactly one conjunct of the predicate.
ItemKinds ==
    {Kind(t, cloudy_less_than - 1, platform, f) :
        t \in {datetime[1], datetime[2]}, f \in {FootCover, FootPartial}}
    \cup {Kind(datetime[1], cloudy_less_than, platform, FootCover),
          Kind(datetime[1], cloudy_less_than + 1, platform, FootCover),
          Kind(datetime[1], cloudy_less_than - 1, "landsat-7", FootCover),
          Kind(datetime[1] - 1, cloudy_less_than - 1, platform, FootCover),
          Kind(datetime[2] + 1, cloudy_less_than - 1, platform, FootCover),
          Kind(datetime[1], cloudy_less_than - 1, platform, FootDisjoint)}

\* The remote item lists: up to MaxItems items in service-defined order.
Services == UNION {[1..n -> ItemKinds] : n \in 0..MaxItems}

\* The item lists behind the collection's geoparquet-items asset, which the
\* Intake notebook reads unfiltered: the fields the search reads play no part.
TailServices ==
    UNION {[1..n -> {Kind(datetime[1], cloudy_less_than - 1, platform, f) :
                        f \in {FootCover, FootPartial}}] : n \in 0..MaxItems}

\* Collection ids of the service, as their dash-separated words.
ServiceCollections ==
    <<<<"landsat", "c2", "l1">>, <<"landsat", "c2", "l2">>, <<"sentinel", "2", "l2a">>>>

\* The assets a collection carries.
CollectionAssets == {"thumbnail", "geoparquet-items"}

\* What intake.readers.datatypes.recommend(url) may answer.
Recommendations == {<<>>, <<"STACJSON">>, <<"STACJSON", "JSONFile">>}

\* cols_ordered: the columns the band table keeps.
cols_ordered ==
    <<"common_name", "description", "name", "center_wavelength",
      "full_width_half_max">>

\* One eo:bands descriptor: its name and the keys it carries.
Descriptor(n, keys) == [name |-> n, keys |-> keys]

FullDescriptor(n) ==
    Descriptor(n, {cols_ordered[c] : c \in 1..Len(cols_ordered)})

\* An asset's extra_fields: whether it has the key "eo:bands", and the list
\* stored under it.
WithBands(list) == [has_eo |-> TRUE, eo_bands |-> list]

NoBands == [has_eo |-> FALSE, eo_bands |-> <<>>]

\* The extra_fields of the assets of an item.  Landsat items describe one band
\* on each band asset and none on the rendered preview; the other layouts have
\* a descriptor on every asset, an empty list, two descriptors on one asset,
\* no descriptor at all, and descriptors short of columns.
RealLayout ==
    [a \in AssetNames |->
        IF a = "rendered_preview" THEN NoBands ELSE WithBands(<<FullDescriptor(a)>>)]

Layouts ==
    {RealLayout,
     [a \in AssetNames |-> WithBands(<<FullDescriptor(a)>>)],
     [RealLayout EXCEPT !["nir08"] = WithBands(<<>>)],
     [RealLayout EXCEPT !["red"] =
        WithBands(<<FullDescriptor("red"), FullDescriptor("red_alt")>>)],
     [a \in AssetNames |-> NoBands],
     [a \in AssetNames |->
        IF a = "rendered_preview" THEN NoBands
        ELSE WithBands(<<Descriptor(a, {"name", "common_name"})>>)]}

\* The EPSG code of the items' projection (https://epsg.io/32611).
LandsatEpsg == 32611

\* The value an item keeps under "proj:epsg": an integer code, null, or no
\* such key.
EpsgCode(n) == [int |-> n]

EpsgNull == [null |-> TRUE]

EpsgAbsent == [absent |-> TRUE]

\* What the items of the collection carry beside the fields the search reads.
Content(lay, e) == [extra_fields |-> lay, epsg |-> e]

RealContent == Content(RealLayout, EpsgCode(LandsatEpsg))

Contents ==
    {Content(RealLayout, e) : e \in {EpsgCode(LandsatEpsg), EpsgNull, EpsgAbsent}}
    \cup {Content(lay, EpsgCode(LandsatEpsg)) : lay \in Layouts}

\* Two-item lists the search returns whole.
SelectableServices ==
    [1..2 -> {Kind(datetime[1], cloudy_less_than - 1, platform, f) :
                f \in {FootCover, FootPartial}}]

\* Names of catalog entries: the k-th item of the item list, the n-th collection.
ItemRef(k) == <<"item", k>>

CollRef(n) == <<"collection", n>>

\* ------------------------------------------------------------------ helpers

\* Python's seq[i].
At(seq, i) == seq[i + 1]

\* Two boxes <<minx, miny, maxx, maxy>> share a point.
Intersects(a, b) ==
    /\ a[1] <= b[3]
    /\ b[1] <= a[3]
    /\ a[2] <= b[4]
    /\ b[2] <= a[4]

\* An asset href: the blob url (named by its entry and asset name) and the
\* number of SAS tokens in its query string.
Href(id, a, n) == [entry |-> id, asset |-> a, sas |-> n]

\* planetary_computer signs a url by appending a token to its query string; a
\* url that already carries one is returned as it is.
SignUrl(h) == IF h.sas > 0 THEN h ELSE [h EXCEPT !.sas = 1]

\* planetary_computer.sign_inplace on an item: every asset of the item is
\* signed, in the item object itself.
sign_inplace(item) ==
    [item EXCEPT !.assets = [a \in AssetNames |-> SignUrl(item.assets[a])]]

\* The item object pystac builds from what the service stores at position k.
ItemFromService(svc, k) ==
    [id |-> ItemRef(k),
     properties |-> [datetime |-> svc[k].time,
                     cloud_cover |-> svc[k].cloud,
                     platform |-> svc[k].platform],
     foot |-> svc[k].foot,
     assets |-> [a \in AssetNames |-> Href(ItemRef(k), a, 0)]]

\* The item with the extra_fields of its assets and its "proj:epsg" property.
WithContent(item, c) ==
    [id |-> item.id,
     properties |->
        IF c.epsg = EpsgAbsent
        THEN item.properties
        ELSE [datetime |-> item.properties.datetime,
              cloud_cover |-> item.properties.cloud_cover,
              platform |-> item.properties.platform,
              proj_epsg |-> c.epsg],
     foot |-> item.foot,
     assets |-> item.assets,
     extra_fields |-> c.extra_fields]

\* ------------------------------------------------------------ search/filter

\* QueryMatches with the "in" comparison left out.
QueryMatches_anyPlatform(k) == k.cloud < cloudy_less_than

\* QueryMatches with "lt" read as "lte".
QueryMatches_lte(k) ==
    /\ k.cloud <= cloudy_less_than
    /\ k.platform \in {platform}

\* query={"eo:cloud_cover": {"lt": cloudy_less_than}, "platform": {"in": [platform]}}
QueryMatches(k) ==
    /\ k.cloud < cloudy_less_than
    /\ k.platform \in {platform}

\* bbox=bbox, datetime=datetime: the footprint meets the box and the
\* acquisition time lies in the closed interval.
Matches(k) ==
    /\ Intersects(k.foot, bbox)
    /\ datetime[1] <= k.time
    /\ k.time <= datetime[2]
    /\ QueryMatches(k)

\* The positions of svc the search returns, in service order.
MatchPositions(svc) ==
    SelectSeq([k \in 1..Len(svc) |-> k], LAMBDA k : Matches(svc[k]))

\* OpenModified with the modifier applied to every item under the root.
OpenModified_eager(svc) ==
    {<<ItemRef(k), a>> : k \in 1..Len(svc), a \in AssetNames}

\* What Client.open hands to the modifier: the root catalog object, which has
\* no item assets.
OpenModified(svc) == {}

\* search.item_collection(): the matching items, each passed to the client's
\* modifier (sign_inplace) as it is returned.
ItemCollection(svc) ==
    [i \in 1..Len(MatchPositions(svc)) |->
        sign_inplace(ItemFromService(svc, MatchPositions(svc)[i]))]

\* item_id with the positions counted from one.
ItemIdDict_oneBased(its) ==
    [key \in {<<i, At(its, i).id>> : i \in 0..(Len(its) - 1)} |-> key[1] + 1]

\* item_id = {(i, item.id): i for i, item in enumerate(items)}
ItemIdDict(its) ==
    [key \in {<<i, At(its, i).id>> : i \in 0..(Len(its) - 1)} |-> key[1]]

\* The hrefs a signer call on item it touches.
SignedBy(it) == {<<it.id, a>> : a \in AssetNames}

\* The hrefs a signer call on the n-th collection touches.
SignedByCollection(n) == {<<CollRef(n), a>> : a \in CollectionAssets}

\* "landsat" in collection
IsLandsat(c) == \E w \in 1..Len(c) : c[w] = "landsat"

\* The position of a collection id in the service's list, 0 when absent
\* (a KeyError in Python).
CollectionIndex(c) ==
    IF \E n \in 1..Len(ServiceCollections) : ServiceCollections[n] = c
    THEN CHOOSE n \in 1..Len(ServiceCollections) : ServiceCollections[n] = c
    ELSE 0

\* ---------------------------------------------------------- materialization

\* StacLoadVars with the variables in the order the item lists its assets.
StacLoadVars_assetOrder(it, bands) ==
    SelectSeq(AssetOrder, LAMBDA a : \E b \in 1..Len(bands) : bands[b] = a)

\* The data variables of the Dataset stac_load builds: one per requested band,
\* in the order of the bands argument.
StacLoadVars(it, bands) == bands

\* StacLoadPixelReads with the chunks argument ignored: an eager load.
StacLoadPixelReads_eager(chunks, nb) == nb

\* Pixel reads stac_load itself issues for nb bands: none with chunks={} (Dask),
\* all of them without it.
StacLoadPixelReads(chunks, nb) == IF chunks = "dask" THEN 0 ELSE nb

\* ds.to_array(dim="band"): the data variables become the labels of the new
\* band axis, in the Dataset's order.
ToArrayBand(dset) == dset.vars

\* catbands.read(dim="band"): the StackBands reader concatenates one array per
\* entry of its bands argument, in that order, and labels the axis with them.
StackBandsTitles(bands) == bands

\* The loop of the bands cell over the assets from position n on:
\*     try: assets.append(asset.extra_fields["eo:bands"][0])
\*     except: pass
\* acc holds the list so far and the number of exceptions caught so far.
RECURSIVE BandsLoop(_, _, _)
BandsLoop(it, n, acc) ==
    IF n > Len(AssetOrder)
    THEN acc
    ELSE LET fields == it.extra_fields[AssetOrder[n]]
         IN IF fields.has_eo /\ Len(fields.eo_bands) > 0
            THEN BandsLoop(it, n + 1,
                           [acc EXCEPT !.assets = Append(@, fields.eo_bands[1])])
            ELSE BandsLoop(it, n + 1, [acc EXCEPT !.caught = @ + 1])

\* pd.DataFrame.from_dict(rows): its columns are the keys the rows carry.
FrameColumns(rows) == UNION {rows[r].keys : r \in 1..Len(rows)}

\* The stages of the pipeline, in the order data flows through them.
StageOrder == <<"resolve", "read", "search", "materialize", "visualize">>

\* The position of a stage in that order, 0 for the set-up before the pipeline.
Rank(s) ==
    IF \E r \in 1..Len(StageOrder) : StageOrder[r] = s
    THEN CHOOSE r \in 1..Len(StageOrder) : StageOrder[r] = s
    ELSE 0

\* An initialization that loads nothing.
PnExtension_loadsNothing(loaded) == loaded

\* pn.extension(): loads the display engine's default extension into the
\* process; loading what is loaded changes nothing.
PnExtension(loaded) == loaded \cup {"bokeh"}

\* A read that asks the service a second time when the first request fails.
AccessAttempts_retry(ok) == IF ok THEN 1 ELSE 2

\* Requests one call of Client.open or reader.read() sends: the notebooks call
\* them bare, with no loop and no handler around them.
AccessAttempts(ok) == 1

\* A load that ignores the box and returns the whole tile.
ClipExtent_wholeTile(box, foot) == foot

\* stac_load(..., bbox=bbox): the region that is loaded is the requested box,
\* whatever part of it the item's footprint covers.
ClipExtent(box, foot) == box

\* An assignment that keeps the object it is given, so that da.attrs and the
\* item's properties are one dictionary.
AttrsAssign_alias(value) == [alias |-> TRUE, dict |-> value]

\* da.attrs = value: the attrs setter stores dict(value), a dictionary of its
\* own, not the object it is given.
AttrsAssign(value) == [alias |-> FALSE, dict |-> value]

\* f"epsg:{value}": the text of the code, "None" for a null.
FormatEpsg(value) ==
    IF "int" \in DOMAIN value
    THEN [auth |-> "epsg", code |-> value]
    ELSE [auth |-> "epsg", code |-> [text |-> "None"]]

\* The projection identifiers the renderer resolves: "epsg:" and a known code.
ValidCrs(crs) ==
    /\ crs.auth = "epsg"
    /\ "int" \in DOMAIN crs.code
    /\ crs.code.int \in {LandsatEpsg}

\* A dictionary with one more key.
SetItem(dict, key, value) ==
    [k \in DOMAIN dict \cup {key} |-> IF k = key THEN value ELSE dict[k]]

\* -------------------------------------------------------------------- state

VARIABLES
    nb,                 \* the notebook that runs: "geo" or "intake"
    pc,                 \* the next cell to run, "done" or "failed"
    service,            \* the remote item list (environment)
    err,                \* the exception that ended the run, or None
    signed,             \* <<entry, asset>> hrefs a signer has been applied to
    accessed,           \* <<entry, asset>> hrefs the notebook has read
    \* notebook "geo"
    catalog,            \* the opened client, or None
    landsat_collections,
    items,              \* the search result
    item_id,
    item_sel,           \* the preview widget's value
    selected_item,      \* index into items of the object selected_item names
    ds,                 \* the lazy Dataset
    da,                 \* the computed DataArray
    metaReads,          \* metadata requests of stac_load
    pixelReads,         \* pixel-value requests of stac_load and compute (the
                        \* Intake readers' read() is their realize call and
                        \* is not counted)
    computeCalls,       \* calls of .compute()
    \* notebook "intake"
    data_types,         \* the resolver's answer
    data_type,
    reader,
    stac_cat,           \* the collections of the catalog that was read
    description,        \* the ids description has a text for
    landsat_reader,     \* position of the collection landsat_reader reads
    landsat_items,      \* the geoparquet-items href
    cat,                \* the entries of the catalog built from the item list
    item_key,           \* index into cat of the entry item_key names
    subcat,
    catbands,
    data,               \* the stacked array
    \* both notebooks
    content,            \* what the collection's items carry (environment)
    assets,             \* the descriptors the bands cell has collected
    bands,              \* the band table
    swallowed,          \* exceptions the bands cell has caught and dropped
    attempts,           \* requests the catalog reads have sent to the service
    pn_state,           \* the extensions the display engine has loaded
    extensionCalls,     \* calls of pn.extension()
    rendered,           \* the cells that have rendered something
    stage,              \* the pipeline stage of the cell that ran last
    furthest            \* the rank of the furthest stage that has started

shared == <<nb, service, err, signed, accessed>>

geo == <<catalog, landsat_collections, items, item_id, item_sel, selected_item,
         ds, da, metaReads, pixelReads, computeCalls>>

intake == <<data_types, data_type, reader, stac_cat, description,
            landsat_reader, landsat_items, cat, item_key, subcat, catbands, data>>

preview == <<assets, bands, swallowed>>

display == <<pn_state, extensionCalls, rendered>>

progress == <<stage, furthest>>

vars == <<pc, shared, geo, intake, content, preview, display, attempts, progress>>

Init ==
    /\ \/ nb = "geo" /\ service \in Services /\ content = RealContent
       \/ nb = "geo" /\ service \in SelectableServices /\ content \in Contents
       \/ nb = "intake" /\ service \in TailServices /\ content = RealContent
    /\ pc = "imports"
    /\ err = None
    /\ signed = {}
    /\ accessed = {}
    /\ catalog = None
    /\ landsat_collections = <<>>
    /\ items = <<>>
    /\ item_id = <<>>
    /\ item_sel = NoIndex
    /\ selected_item = NoIndex
    /\ ds = Unbound
    /\ da = Unbound
    /\ metaReads = 0
    /\ pixelReads = 0
    /\ computeCalls = 0
    /\ data_types = <<>>
    /\ data_type = None
    /\ reader = Unbound
    /\ stac_cat = <<>>
    /\ description = <<>>
    /\ landsat_reader = NoIndex
    /\ landsat_items = Unbound
    /\ cat = <<>>
    /\ item_key = NoIndex
    /\ subcat = NoIndex
    /\ catbands = Unbound
    /\ data = Unbound
    /\ assets = <<>>
    /\ bands = Unbound
    /\ swallowed = 0
    /\ attempts = 0
    /\ pn_state = {}
    /\ extensionCalls = 0
    /\ rendered = {}
    /\ stage = "setup"
    /\ furthest = 0

\* An exception ends the run.
Raise(e) ==
    /\ err' = e
    /\ pc' = "failed"

\* A cell shows its output.
Render(cell) == rendered' = rendered \cup {cell}

\* The cell that runs belongs to stage s.
Enter(s) ==
    /\ stage' = s
    /\ furthest' = IF Rank(s) > furthest THEN Rank(s) ELSE furthest

\* import ...; pn.extension()   (the first code cell of both notebooks)
Imports ==
    /\ pc = "imports"
    /\ pn_state' = PnExtension(pn_state)
    /\ extensionCalls' = extensionCalls + 1
    /\ pc' = IF nb = "geo" THEN "open" ELSE "recommend"
    /\ UNCHANGED <<shared, geo, intake, content, preview, attempts, rendered,
                   progress>>

\* ------------------------------------------------------ cells of "geo"

\* catalog = pystac_client.Client.open(url, modifier=planetary_computer.sign_inplace)
OpenCatalog ==
    /\ pc = "open"
    /\ Enter("read")
    /\ UNCHANGED <<content, preview, display>>
    /\ \E ok \in BOOLEAN :
        /\ attempts' = attempts + AccessAttempts(ok)
        /\ IF ok
           THEN /\ catalog' = "client"
                /\ signed' = signed \cup OpenModified(service)
                /\ pc' = "collections"
                /\ err' = err
           ELSE /\ Raise("CatalogAccessError")
                /\ UNCHANGED <<catalog, signed>>
    /\ UNCHANGED <<nb, service, accessed, landsat_collections, items, item_id,
                   item_sel, selected_item, ds, da, metaReads, pixelReads,
                   computeCalls, intake>>

\* all_collections = [i.id for i in catalog.get_collections()]
\* landsat_collections = [c for c in all_collections if "landsat" in c]
\* Every collection the client returns has passed through its modifier.
GetCollections ==
    /\ pc = "collections"
    /\ Enter("read")
    /\ UNCHANGED <<content, preview, display, attempts>>
    /\ landsat_collections' = SelectSeq(ServiceCollections, IsLandsat)
    /\ signed' = signed \cup
            UNION {SignedByCollection(n) : n \in 1..Len(ServiceCollections)}
    /\ pc' = "search"
    /\ UNCHANGED <<nb, service, err, accessed, catalog, items, item_id,
                   item_sel, selected_item, ds, da, metaReads, pixelReads,
                   computeCalls, intake>>

\* search = catalog.search(...); items = search.item_collection(); item_id = {...}
Search ==
    /\ pc = "search"
    /\ Enter("search")
    /\ UNCHANGED <<content, preview, display, attempts>>
    /\ items' = [i \in 1..Len(ItemCollection(service)) |->
                    WithContent(ItemCollection(service)[i], content)]
    /\ item_id' = ItemIdDict(items')
    /\ signed' = signed \cup UNION {SignedBy(items'[i]) : i \in 1..Len(items')}
    /\ pc' = "preview"
    /\ UNCHANGED <<nb, service, err, accessed, catalog, landsat_collections,
                   item_sel, selected_item, ds, da, metaReads, pixelReads,
                   computeCalls, intake>>

\* item_sel = pn.widgets.Select(value=1, options=item_id);
\* pn.Row(item_sel, pn.bind(get_preview, item_sel)): get_preview(1) is evaluated
\* for the row, items[1].assets["rendered_preview"].href.
Preview ==
    /\ pc = "preview"
    /\ Enter("search")
    /\ UNCHANGED <<content, preview, attempts, pn_state, extensionCalls>>
    /\ item_sel' = 1
    /\ IF 1 < Len(items)
       THEN /\ accessed' = accessed \cup {<<At(items, 1).id, "rendered_preview">>}
            /\ Render("preview")
            /\ pc' = "select"
            /\ err' = err
       ELSE /\ Raise("IndexError")
            /\ UNCHANGED <<accessed, rendered>>
    /\ UNCHANGED <<nb, service, signed, catalog, landsat_collections, items,
                   item_id, selected_item, ds, da, metaReads, pixelReads,
                   computeCalls, intake>>

\* The reader picks another option of the widget: get_preview(i) runs again.
PreviewPick ==
    /\ pc = "select"
    /\ Enter("search")
    /\ UNCHANGED <<content, preview, attempts, pn_state, extensionCalls>>
    /\ \E key \in DOMAIN item_id :
        /\ item_sel' = item_id[key]
        /\ accessed' = accessed \cup
                {<<At(items, item_id[key]).id, "rendered_preview">>}
    /\ Render("preview")
    /\ UNCHANGED <<pc, nb, service, err, signed, catalog, landsat_collections,
                   items, item_id, selected_item, ds, da, metaReads, pixelReads,
                   computeCalls, intake>>

\* selected_item = items[1]
SelectItem ==
    /\ pc = "select"
    /\ Enter("search")
    /\ UNCHANGED <<content, preview, display, attempts>>
    /\ IF 1 < Len(items)
       THEN /\ selected_item' = 1
            /\ pc' = "bands"
            /\ err' = err
       ELSE /\ Raise("IndexError")
            /\ selected_item' = selected_item
    /\ UNCHANGED <<nb, service, signed, accessed, catalog, landsat_collections,
                   items, item_id, item_sel, ds, da, metaReads, pixelReads,
                   computeCalls, intake>>

\* The cell without its handler: the first asset that has no descriptor ends
\* the loop and the run.
BandsPreview_noHandler ==
    /\ pc = "bands"
    /\ Enter("search")
    /\ LET loop == BandsLoop(At(items, selected_item), 1,
                             [assets |-> <<>>, caught |-> 0])
       IN /\ swallowed' = swallowed
          /\ IF loop.caught = 0
             THEN /\ assets' = loop.assets
                  /\ bands' = [rows |-> [r \in 1..Len(loop.assets) |->
                                            loop.assets[r].name],
                               columns |-> cols_ordered]
                  /\ pc' = "load"
                  /\ err' = err
             ELSE /\ Raise("KeyError")
                  /\ assets' = <<>>
                  /\ bands' = bands
    /\ UNCHANGED <<nb, service, signed, accessed, geo, intake, content, display,
                   attempts>>

\* assets = []; for _, asset in selected_item.assets.items(): try/except
\* bands = pd.DataFrame.from_dict(assets)[cols_ordered]
\* Selecting a column the frame does not have raises KeyError.
BandsPreview ==
    /\ pc = "bands"
    /\ Enter("search")
    /\ LET loop == BandsLoop(At(items, selected_item), 1,
                             [assets |-> <<>>, caught |-> 0])
       IN /\ assets' = loop.assets
          /\ swallowed' = swallowed + loop.caught
          /\ IF \A c \in 1..Len(cols_ordered) :
                    cols_ordered[c] \in FrameColumns(loop.assets)
             THEN /\ bands' = [rows |-> [r \in 1..Len(loop.assets) |->
                                            loop.assets[r].name],
                               columns |-> cols_ordered]
                  /\ pc' = "load"
                  /\ err' = err
             ELSE /\ Raise("KeyError")
                  /\ bands' = bands
    /\ UNCHANGED <<nb, service, signed, accessed, geo, intake, content, display,
                   attempts>>

\* ds = odc.stac.stac_load([selected_item], bands=bands_of_interest, bbox=bbox,
\*                         chunks={}).isel(time=0)
StacLoad ==
    /\ pc = "load"
    /\ Enter("materialize")
    /\ UNCHANGED <<content, preview, display, attempts>>
    /\ LET it == At(items, selected_item)
           loaded == [vars |-> StacLoadVars(it, bands_of_interest),
                      time |-> <<it.properties.datetime>>,
                      source |-> it.id,
                      extent |-> ClipExtent(bbox, it.foot),
                      chunks |-> "dask"]
       IN /\ ds' = [loaded EXCEPT !.time = At(loaded.time, 0)]
          /\ accessed' = accessed \cup
                {<<it.id, bands_of_interest[b]>> : b \in 1..Len(bands_of_interest)}
          /\ metaReads' = metaReads + 1
          /\ pixelReads' = pixelReads
                + StacLoadPixelReads("dask", Len(bands_of_interest))
    /\ pc' = "compute"
    /\ UNCHANGED <<nb, service, err, signed, catalog, landsat_collections,
                   items, item_id, item_sel, selected_item, da, computeCalls,
                   intake>>

\* da = ds.to_array(dim="band").compute()
Compute ==
    /\ pc = "compute"
    /\ Enter("materialize")
    /\ UNCHANGED <<content, preview, display, attempts>>
    /\ da' = [band |-> ToArrayBand(ds),
              time |-> ds.time,
              source |-> ds.source,
              extent |-> ds.extent,
              attrs |-> AttrsAssign([k \in {} |-> None])]
    /\ computeCalls' = computeCalls + 1
    /\ pixelReads' = pixelReads + Len(ds.vars)
    /\ pc' = "imshow"
    /\ UNCHANGED <<shared, catalog, landsat_collections, items, item_id,
                   item_sel, selected_item, ds, metaReads, intake>>

\* A notebook that searches again once it has shown the image.
Imshow_searchAgain ==
    /\ pc = "imshow"
    /\ Render("imshow")
    /\ Enter("visualize")
    /\ UNCHANGED <<content, preview, attempts, pn_state, extensionCalls>>
    /\ pc' = "search"
    /\ UNCHANGED <<shared, geo, intake>>

\* da.plot.imshow(robust=True, size=3)
Imshow ==
    /\ pc = "imshow"
    /\ Render("imshow")
    /\ Enter("visualize")
    /\ UNCHANGED <<content, preview, attempts, pn_state, extensionCalls>>
    /\ pc' = "hvplot"
    /\ UNCHANGED <<shared, geo, intake>>

\* da.hvplot.image(x="x", y="y")
HvplotImage ==
    /\ pc = "hvplot"
    /\ Render("hvplot")
    /\ Enter("visualize")
    /\ pc' = "hvplotbands"
    /\ UNCHANGED <<shared, geo, intake, content, preview, attempts, pn_state,
                   extensionCalls>>

\* da.hvplot.image(x="x", y="y", col="band", ..., rasterize=True): one panel
\* for each band
HvplotBands ==
    /\ pc = "hvplotbands"
    /\ Render("hvplotbands")
    /\ Enter("visualize")
    /\ pc' = "attrs"
    /\ UNCHANGED <<shared, geo, intake, content, preview, attempts, pn_state,
                   extensionCalls>>

\* da.attrs = selected_item.properties
SetAttrs ==
    /\ pc = "attrs"
    /\ Enter("materialize")
    /\ da' = [da EXCEPT !.attrs = AttrsAssign(At(items, selected_item).properties)]
    /\ pc' = "crs"
    /\ UNCHANGED <<shared, catalog, landsat_collections, items, item_id,
                   item_sel, selected_item, ds, metaReads, pixelReads,
                   computeCalls, intake, content, preview, display, attempts>>

\* A cell that sets the key on the item's properties as well as on the array.
SetCrs_onProperties ==
    /\ pc = "crs"
    /\ Enter("materialize")
    /\ LET it == At(items, selected_item)
       IN IF "proj_epsg" \in DOMAIN it.properties
          THEN /\ da' = [da EXCEPT !.attrs.dict =
                            SetItem(@, "crs", FormatEpsg(it.properties.proj_epsg))]
               /\ items' = [items EXCEPT ![selected_item + 1].properties =
                                SetItem(@, "crs", FormatEpsg(it.properties.proj_epsg))]
               /\ pc' = "hvplotgeo"
               /\ err' = err
          ELSE /\ Raise("KeyError")
               /\ UNCHANGED <<da, items>>
    /\ UNCHANGED <<nb, service, signed, accessed, catalog, landsat_collections,
                   item_id, item_sel, selected_item, ds, metaReads, pixelReads,
                   computeCalls, intake, content, preview, display, attempts>>

\* da.attrs["crs"] = f"epsg:{selected_item.properties['proj:epsg']}"
\* The subscript raises when the item has no such property; a dictionary that
\* da.attrs shares with the item would get the key too.
SetCrs ==
    /\ pc = "crs"
    /\ Enter("materialize")
    /\ LET it == At(items, selected_item)
       IN IF "proj_epsg" \in DOMAIN it.properties
          THEN /\ da' = [da EXCEPT !.attrs.dict =
                            SetItem(@, "crs", FormatEpsg(it.properties.proj_epsg))]
               /\ items' = IF da.attrs.alias
                           THEN [items EXCEPT ![selected_item + 1].properties =
                                    SetItem(@, "crs",
                                            FormatEpsg(it.properties.proj_epsg))]
                           ELSE items
               /\ pc' = "hvplotgeo"
               /\ err' = err
          ELSE /\ Raise("KeyError")
               /\ UNCHANGED <<da, items>>
    /\ UNCHANGED <<nb, service, signed, accessed, catalog, landsat_collections,
                   item_id, item_sel, selected_item, ds, metaReads, pixelReads,
                   computeCalls, intake, content, preview, display, attempts>>

\* A renderer that reprojects the array it is given in place.
HvplotGeo_reprojectsInPlace ==
    /\ pc = "hvplotgeo"
    /\ Enter("visualize")
    /\ IF ValidCrs(da.attrs.dict.crs)
       THEN /\ Render("hvplotgeo")
            /\ da' = [da EXCEPT !.attrs.dict =
                        SetItem(@, "crs", [auth |-> "epsg", code |-> [text |-> "display"]])]
            /\ pc' = "done"
            /\ err' = err
       ELSE /\ Raise("CRSError")
            /\ UNCHANGED <<rendered, da>>
    /\ UNCHANGED <<nb, service, signed, accessed, catalog, landsat_collections,
                   items, item_id, item_sel, selected_item, ds, metaReads,
                   pixelReads, computeCalls, intake, content, preview,
                   attempts, pn_state, extensionCalls>>

\* da.hvplot.image(x="x", y="y", geo=True, tiles="ESRI", ...): the renderer
\* resolves da.attrs["crs"] to place the image on the map.
HvplotGeo ==
    /\ pc = "hvplotgeo"
    /\ Enter("visualize")
    /\ IF ValidCrs(da.attrs.dict.crs)
       THEN /\ Render("hvplotgeo")
            /\ pc' = "done"
            /\ err' = err
       ELSE /\ Raise("CRSError")
            /\ rendered' = rendered
    /\ UNCHANGED <<nb, service, signed, accessed, geo, intake, content, preview,
                   attempts, pn_state, extensionCalls>>

\* --------------------------------------------------- cells of "intake"

\* data_types = intake.readers.datatypes.recommend(url)
Recommend ==
    /\ pc = "recommend"
    /\ Enter("resolve")
    /\ UNCHANGED <<content, preview, display, attempts>>
    /\ data_types' \in Recommendations
    /\ pc' = "datatype"
    /\ UNCHANGED <<shared, geo, data_type, reader, stac_cat, description,
                   landsat_reader, landsat_items, cat, item_key, subcat,
                   catbands, data>>

\* A cell that takes the first recommendation instead of naming the type.
SelectDataType_firstRecommended ==
    /\ pc = "datatype"
    /\ Enter("resolve")
    /\ UNCHANGED <<content, preview, display, attempts>>
    /\ IF data_types # <<>>
       THEN /\ data_type' = data_types[1]
            /\ pc' = "reader"
            /\ err' = err
       ELSE /\ Raise("IndexError")
            /\ data_type' = data_type
    /\ UNCHANGED <<nb, service, signed, accessed, geo, data_types, reader,
                   stac_cat, description, landsat_reader, landsat_items, cat,
                   item_key, subcat, catbands, data>>

\* data_type = intake.datatypes.STACJSON(url); readers = data_type.possible_readers
SelectDataType ==
    /\ pc = "datatype"
    /\ Enter("resolve")
    /\ UNCHANGED <<content, preview, display, attempts>>
    /\ data_type' = "STACJSON"
    /\ pc' = "reader"
    /\ UNCHANGED <<shared, geo, data_types, reader, stac_cat, description,
                   landsat_reader, landsat_items, cat, item_key, subcat,
                   catbands, data>>

\* reader = intake.catalogs.StacCatalogReader(data_type, signer=planetary_computer.sign_inplace)
\* The reader is only configured: nothing is read and nothing is signed.
MakeReader ==
    /\ pc = "reader"
    /\ Enter("read")
    /\ UNCHANGED <<content, preview, display, attempts>>
    /\ reader' = [cls |-> "StacCatalogReader",
                  data |-> data_type,
                  signer |-> "sign_inplace"]
    /\ pc' = "read"
    /\ UNCHANGED <<shared, geo, data_types, data_type, stac_cat, description,
                   landsat_reader, landsat_items, cat, item_key, subcat,
                   catbands, data>>

\* stac_cat = reader.read(); description[data["id"]] = data["description"] for
\* every entry of stac_cat.
ReadCatalog ==
    /\ pc = "read"
    /\ Enter("read")
    /\ UNCHANGED <<content, preview, display>>
    /\ \E ok \in BOOLEAN :
        /\ attempts' = attempts + AccessAttempts(ok)
        /\ IF ok
           THEN /\ stac_cat' = ServiceCollections
                /\ description' = stac_cat'
                /\ pc' = "describe"
                /\ err' = err
           ELSE /\ Raise("CatalogAccessError")
                /\ UNCHANGED <<stac_cat, description>>
    /\ UNCHANGED <<nb, service, signed, accessed, geo, data_types, data_type,
                   reader, landsat_reader, landsat_items, cat, item_key, subcat,
                   catbands, data>>

\* print("1:", description["landsat-c2-l1"]); print("2:", description["landsat-c2-l2"])
PrintDescriptions ==
    /\ pc = "describe"
    /\ Enter("read")
    /\ UNCHANGED <<content, preview, display, attempts>>
    /\ IF \A c \in {<<"landsat", "c2", "l1">>, <<"landsat", "c2", "l2">>} :
            \E n \in 1..Len(description) : description[n] = c
       THEN /\ pc' = "landsat"
            /\ err' = err
       ELSE Raise("KeyError")
    /\ UNCHANGED <<nb, service, signed, accessed, geo, intake>>

\* landsat_reader = stac_cat["landsat-c2-l2"]
\* landsat_metadata = landsat_reader.read().metadata
\* Reading the collection passes its assets to the reader's signer.
LandsatReader ==
    /\ pc = "landsat"
    /\ Enter("read")
    /\ UNCHANGED <<content, preview, attempts, pn_state, extensionCalls>>
    /\ LET n == CollectionIndex(<<"landsat", "c2", "l2">>)
       IN IF n > 0 /\ n <= Len(stac_cat)
          THEN /\ landsat_reader' = n
               /\ signed' = signed \cup SignedByCollection(n)
               /\ Render("metadata")
               /\ pc' = "thumbnail"
               /\ err' = err
          ELSE /\ Raise("KeyError")
               /\ UNCHANGED <<landsat_reader, signed, rendered>>
    /\ UNCHANGED <<nb, service, accessed, geo, data_types, data_type, reader,
                   stac_cat, description, landsat_items, cat, item_key, subcat,
                   catbands, data>>

\* landsat_reader["thumbnail"].read()
Thumbnail ==
    /\ pc = "thumbnail"
    /\ Enter("read")
    /\ UNCHANGED <<content, preview, display, attempts>>
    /\ accessed' = accessed \cup {<<CollRef(landsat_reader), "thumbnail">>}
    /\ pc' = "geoparquet"
    /\ UNCHANGED <<nb, service, err, signed, geo, intake>>

\* landsat_items = landsat_reader["geoparquet-items"]
LandsatItems ==
    /\ pc = "geoparquet"
    /\ Enter("read")
    /\ UNCHANGED <<content, preview, display, attempts>>
    /\ landsat_items' = SignUrl(Href(CollRef(landsat_reader), "geoparquet-items", 0))
    /\ accessed' = accessed \cup {<<CollRef(landsat_reader), "geoparquet-items">>}
    /\ pc' = "tocatalog"
    /\ UNCHANGED <<nb, service, err, signed, geo, data_types, data_type, reader,
                   stac_cat, description, landsat_reader, cat, item_key, subcat,
                   catbands, data>>

\* cat = landsat_items.tail(output_instance="geopandas:GeoDataFrame")
\*                    .GeoDataFrameToSTACCatalog.read()
\* The rows of the item table become the entries of a catalog, hrefs as stored.
ToCatalog ==
    /\ pc = "tocatalog"
    /\ Enter("read")
    /\ UNCHANGED <<content, preview, display, attempts>>
    /\ cat' = [k \in 1..Len(service) |-> ItemFromService(service, k)]
    /\ pc' = "subcat"
    /\ UNCHANGED <<shared, geo, data_types, data_type, reader, stac_cat,
                   description, landsat_reader, landsat_items, item_key, subcat,
                   catbands, data>>

\* item_key = list(cat.entries.keys())[0]; subcat = cat[item_key].read()
SubCat ==
    /\ pc = "subcat"
    /\ Enter("search")
    /\ UNCHANGED <<content, preview, display, attempts>>
    /\ IF 0 < Len(cat)
       THEN /\ item_key' = 0
            /\ subcat' = 0
            /\ pc' = "red"
            /\ err' = err
       ELSE /\ Raise("IndexError")
            /\ UNCHANGED <<item_key, subcat>>
    /\ UNCHANGED <<nb, service, signed, accessed, geo, data_types, data_type,
                   reader, stac_cat, description, landsat_reader, landsat_items,
                   cat, catbands, data>>

\* subcat.red.read()
ReadRed ==
    /\ pc = "red"
    /\ Enter("materialize")
    /\ UNCHANGED <<content, preview, display, attempts>>
    /\ accessed' = accessed \cup {<<At(cat, subcat).id, "red">>}
    /\ pc' = "stackbands"
    /\ UNCHANGED <<nb, service, err, signed, geo, intake>>

\* catbands = cat[item_key].to_reader(reader="StackBands",
\*     bands=["red", "green", "blue"], signer=planetary_computer.sign_inplace)
ToReader ==
    /\ pc = "stackbands"
    /\ Enter("materialize")
    /\ UNCHANGED <<content, preview, display, attempts>>
    /\ catbands' = [cls |-> "StackBands",
                    entry |-> item_key,
                    bands |-> <<"red", "green", "blue">>,
                    signer |-> "sign_inplace"]
    /\ pc' = "readbands"
    /\ UNCHANGED <<shared, geo, data_types, data_type, reader, stac_cat,
                   description, landsat_reader, landsat_items, cat, item_key,
                   subcat, data>>

\* data = catbands.read(dim="band")
\* The reader builds the item from the entry, passes it to its signer and reads
\* the requested bands from the signed hrefs.
ReadBands ==
    /\ pc = "readbands"
    /\ Enter("materialize")
    /\ UNCHANGED <<content, preview, display, attempts>>
    /\ LET it == sign_inplace(At(cat, catbands.entry))
       IN /\ data' = [band |-> StackBandsTitles(catbands.bands),
                      source |-> it.id,
                      hrefs |-> [b \in 1..Len(catbands.bands) |->
                                    it.assets[catbands.bands[b]]]]
          /\ signed' = signed \cup SignedBy(it)
          /\ accessed' = accessed \cup
                {<<it.id, catbands.bands[b]>> : b \in 1..Len(catbands.bands)}
    /\ pc' = "plot"
    /\ UNCHANGED <<nb, service, err, geo, data_types, data_type, reader,
                   stac_cat, description, landsat_reader, landsat_items, cat,
                   item_key, subcat, catbands>>

\* data.plot.imshow(robust=True, figsize=(10, 10))
PlotImshow ==
    /\ pc = "plot"
    /\ Render("plot")
    /\ Enter("visualize")
    /\ UNCHANGED <<content, preview, attempts, pn_state, extensionCalls>>
    /\ pc' = "done"
    /\ UNCHANGED <<shared, geo, intake>>

Next ==
    \/ Imports
    \/ OpenCatalog
    \/ GetCollections
    \/ Search
    \/ Preview
    \/ PreviewPick
    \/ SelectItem
    \/ BandsPreview
    \/ StacLoad
    \/ Compute
    \/ Imshow
    \/ HvplotImage
    \/ HvplotBands
    \/ SetAttrs
    \/ SetCrs
    \/ HvplotGeo
    \/ Recommend
    \/ SelectDataType
    \/ MakeReader
    \/ ReadCatalog
    \/ PrintDescriptions
    \/ LandsatReader
    \/ Thumbnail
    \/ LandsatItems
    \/ ToCatalog
    \/ SubCat
    \/ ReadRed
    \/ ToReader
    \/ ReadBands
    \/ PlotImshow

Spec == Init /\ [][Next]_vars

\* ------------------------------------------------------------------- claims

\* The search cell has run.
Searched == nb = "geo" /\ catalog # None /\ pc \notin {"collections", "search"}

\* No item of the service lies in the box, in the interval, strictly below the
\* cloud threshold and on the requested platform.
EmptyMatchSet ==
    \A k \in 1..Len(service) :
        ~ /\ Intersects(service[k].foot, bbox)
          /\ service[k].time \in datetime[1]..datetime[2]
          /\ service[k].cloud < cloudy_less_than
          /\ service[k].platform = platform

\* C1: when no item of the service satisfies the search predicate, the search
\* cell ends with an empty item sequence and an empty item_id, and has raised
\* no error when it hands over to the next cell.
C1_EmptyMatchIsEmptyResult ==
    (Searched /\ EmptyMatchSet) =>
        /\ items = <<>>
        /\ DOMAIN item_id = {}
        /\ (pc = "preview" => err = None)

C1_Witness ==
    /\ pc = "preview"
    /\ EmptyMatchSet
    /\ Len(service) = MaxItems
    /\ err = None

\* C2: the lazy Dataset lists its data variables, and the computed array its
\* band axis, in exactly the order of the requested bands; so does the array
\* the StackBands reader returns.
C2_BandOrderPreserved ==
    /\ ds # Unbound => ds.vars = bands_of_interest
    /\ da # Unbound => da.band = bands_of_interest
    /\ data # Unbound => data.band = catbands.bands

C2_Witness ==
    /\ da # Unbound
    /\ da.band = <<"red", "green", "blue">>

C9_SignedOnlyWhenAccessed == signed \subseteq accessed

\* The entries a read of the catalog has returned so far: the collections of
\* get_collections and the items of the search ("geo"); the collection
\* landsat_reader read and the item the StackBands reader read ("intake").
Returned ==
    {CollRef(n) : n \in {m \in 1..Len(ServiceCollections) :
                            landsat_collections # <<>> \/ landsat_reader = m}}
    \cup {items[i].id : i \in 1..Len(items)}
    \cup (IF data # Unbound THEN {data.source} ELSE {})

\* C9, amended: until a read of the catalog returns an entry no href has been
\* signed, and a signed href always belongs to a returned entry; all hrefs of
\* a returned item are signed when it is returned, accessed or not.
C9_SignedOnlyWhenReturned ==
    /\ Returned = {} => signed = {}
    /\ \A s \in signed : s[1] \in Returned
    /\ \A i \in 1..Len(items) : \A a \in AssetNames :
        /\ <<items[i].id, a>> \in signed
        /\ items[i].assets[a].sas = 1

C9_Witness ==
    /\ \E i \in 1..Len(items) : <<items[i].id, "nir08">> \in signed \ accessed
    /\ \E k \in 1..Len(service) : \A a \in AssetNames :
            <<ItemRef(k), a>> \notin signed
    /\ \E i \in 1..Len(items) : <<items[i].id, "red">> \in accessed

\* C10: no pixel value is read before .compute() is called; building the lazy
\* Dataset reads metadata only.
C10_NoPixelsBeforeCompute ==
    /\ computeCalls = 0 => pixelReads = 0
    /\ (ds # Unbound /\ da = Unbound) => (metaReads > 0 /\ pixelReads = 0)
    /\ da # Unbound => (computeCalls > 0 /\ pixelReads = Len(da.band))

C10_Witness ==
    /\ ds # Unbound
    /\ da = Unbound
    /\ computeCalls = 0
    /\ metaReads > 0

\* The cells that render an array.
RenderCells == {"imshow", "hvplot", "hvplotbands", "hvplotgeo", "plot"}

\* A step of one of them.
RenderingStep == pc \in RenderCells /\ pc' # pc

\* C11: a step of a cell that renders an array (static image, interactive
\* image, one panel per band, image on a map) changes no name of either
\* notebook: the array, the Dataset, the items and the catalog stay as they
\* were, and so do the request counters.
C11_RenderingChangesNothing ==
    [][RenderingStep => UNCHANGED <<geo, intake, signed, accessed>>]_vars

\* Every rendering of the geospatial notebook has run on the computed array.
C11_Witness ==
    /\ nb = "geo"
    /\ pc = "done"
    /\ da # Unbound
    /\ {"imshow", "hvplot", "hvplotbands", "hvplotgeo"} \subseteq rendered

\* C12: every exception a cell raises ends the run with that error: no cell
\* catches an exception and carries on, and a recorded error means the run has
\* stopped.
C12_NoErrorSwallowed ==
    /\ swallowed = 0
    /\ err # None => pc = "failed"

\* The catalog read of the notebook has been attempted and has failed.
AccessFailed ==
    /\ attempts > 0
    /\ \/ nb = "geo" /\ catalog = None
       \/ nb = "intake" /\ stac_cat = <<>>

Resolved ==
    /\ nb = "intake"
    /\ pc \notin {"imports", "recommend"}
    /\ stac_cat = <<>>
    /\ attempts = 0

\* C14: the resolver's answer is a list in the resolver's order, and any
\* answer, the empty list included, is a result and not an error: the run goes
\* on to the data-type and reader cells with no exception, and the data type
\* it goes on with is the one the notebook names.
C14_EmptyRecommendationIsNoError ==
    Resolved =>
        /\ data_types \in Recommendations
        /\ err = None
        /\ pc \in {"datatype", "reader", "read"}
        /\ pc # "datatype" => data_type = "STACJSON"

\* The resolver has recognised nothing and the reader has been built.
C14_Witness == Resolved /\ data_types = <<>> /\ pc = "read" /\ reader # Unbound

\* C15 as stated: the cell that ran last belongs to the furthest stage that
\* has started; no cell of an earlier stage runs once a later stage has
\* started.
C15_NoEarlierStageAfterLater == Rank(stage) >= furthest

\* A step whose cell falls back behind the furthest stage is a cell of the
\* geospatial notebook that modifies the materialized array, and a step that
\* signs is a catalog read, a search, or the band read of the Intake notebook.
ForwardStep ==
    /\ Rank(stage') < furthest' => stage' = "materialize" /\ nb = "geo"
    /\ signed' # signed =>
            stage' \in {"read", "search"} \/ (nb = "intake" /\ pc = "readbands")

\* C15: once a later stage has started, no resolving, catalog reading or
\* searching runs again; what does run again is the modification of the
\* materialized array (attributes attached, crs set) after it has been
\* rendered, and the signer, which the Intake band reader applies as it
\* materializes.
C15_OnlyArrayAttributesRunLate == [][ForwardStep]_vars

\* The array has been rendered, then given its attributes and crs, then
\* rendered again.
C15_Witness ==
    /\ nb = "geo"
    /\ pc = "done"
    /\ "crs" \in DOMAIN da.attrs.dict
    /\ {"imshow", "hvplotgeo"} \subseteq rendered
    /\ furthest = Rank("visualize")

\* C16: every item the search has returned lies in the whole predicate: its
\* footprint meets the box, its acquisition time is in the closed interval,
\* its cloud cover is strictly below the threshold (an item at the threshold
\* is not returned) and its platform is one of the listed platforms.
C16_ReturnedItemsSatisfyPredicate ==
    Searched =>
        \A i \in 1..Len(items) :
            /\ Intersects(items[i].foot, bbox)
            /\ items[i].properties.datetime \in datetime[1]..datetime[2]
            /\ items[i].properties.cloud_cover < cloudy_less_than
            /\ items[i].properties.platform \in {platform}

\* The search has returned an item and has left out an item exactly at the
\* cloud threshold and an item of a platform that is not listed.
C16_Witness ==
    /\ Searched
    /\ Len(items) = 1
    /\ \E k \in 1..Len(service) :
            /\ service[k].cloud = cloudy_less_than
            /\ service[k].platform = platform
    /\ \E k \in 1..Len(service) :
            /\ service[k].cloud < cloudy_less_than
            /\ service[k].platform # platform

\* The part two boxes <<west, south, east, north>> have in common.
BoxIntersection(a, b) ==
    <<IF a[1] > b[1] THEN a[1] ELSE b[1],
      IF a[2] > b[2] THEN a[2] ELSE b[2],
      IF a[3] < b[3] THEN a[3] ELSE b[3],
      IF a[4] < b[4] THEN a[4] ELSE b[4]>>

\* The selected item has been loaded with bbox=bbox.
Clipped == nb = "geo" /\ ds # Unbound

\* C17 as stated: the extent of the loaded array is exactly the part the box
\* and the item's footprint have in common.
C17_ExtentIsIntersection ==
    Clipped => ds.extent = BoxIntersection(bbox, At(items, selected_item).foot)

\* C17: the footprint of the loaded item meets the box, and the extent of the
\* Dataset and of the array computed from it is the requested box, whole,
\* whatever part of the box the footprint covers.
C17_ExtentIsRequestedBox ==
    Clipped =>
        /\ Intersects(At(items, selected_item).foot, bbox)
        /\ ds.extent = bbox
        /\ da # Unbound => da.extent = bbox

\* An item whose footprint covers only a part of the box has been loaded and
\* computed.
C17_Witness ==
    /\ Clipped
    /\ da # Unbound
    /\ BoxIntersection(bbox, At(items, selected_item).foot) # bbox

\* A step leaves every endpoint and every entry that exists as it is.
EntriesKept ==
    /\ catalog # None => catalog' = catalog
    /\ items # <<>> => items' = items
    /\ data_type # None => data_type' = data_type
    /\ stac_cat # <<>> => stac_cat' = stac_cat
    /\ cat # <<>> => cat' = cat

\* C18: once a read has returned an endpoint or an entry, no later cell
\* (signing, searching, loading, computing, attaching attributes, setting the
\* crs, rendering) changes it: the assets and the properties of every item of
\* the search result and of every entry of the Intake catalog stay the values
\* the read returned.
C18_EntriesAreSnapshots == [][EntriesKept]_vars

\* The array has the item's properties and a crs of its own, and the item's
\* properties have no crs.
C18_Witness ==
    /\ nb = "geo"
    /\ da # Unbound
    /\ "crs" \in DOMAIN da.attrs.dict
    /\ "crs" \notin DOMAIN At(items, selected_item).properties
    /\ \A k \in DOMAIN At(items, selected_item).properties :
            da.attrs.dict[k] = At(items, selected_item).properties[k]

\* C19: whenever the array has a crs attribute, the attribute is a projection
\* identifier the renderer resolves, whatever "proj:epsg" value the selected
\* item carries (a code, null, or none).
C19_CrsAttributeIsValid ==
    (nb = "geo" /\ da # Unbound /\ "crs" \in DOMAIN da.attrs.dict)
        => ValidCrs(da.attrs.dict.crs)

\* C20: the display engine is initialized by the imports cell, once for the
\* process and before any cell renders: every cell after the imports runs with
\* the engine loaded, no rendering cell initializes it again, and
\* initializing it again would leave what is loaded as it is.
C20_DisplayInitOnceBeforeRendering ==
    /\ extensionCalls <= 1
    /\ pc # "imports" => extensionCalls = 1 /\ "bokeh" \in pn_state
    /\ rendered # {} => extensionCalls = 1 /\ "bokeh" \in pn_state
    /\ PnExtension(PnExtension(pn_state)) = PnExtension(pn_state)

\* Several cells have rendered after the one initialization.
C20_Witness ==
    /\ extensionCalls = 1
    /\ Cardinality(rendered) >= 2
    /\ pc = "done"

\* The item's properties have been attached to the array.
Attached == nb = "geo" /\ da # Unbound /\ DOMAIN da.attrs.dict # {}

\* The properties the search returned for the selected item.
ReturnedProperties ==
    WithContent(ItemCollection(service)[selected_item + 1], content).properties

\* C21: the attributes attached to the array are a copy of the selected item's
\* properties: the array holds every property with the item's value, and after
\* the crs attribute is set on the array the item's properties are still the
\* mapping the search returned, with no crs key.
C21_AttachedPropertiesAreACopy ==
    Attached =>
        /\ ~ da.attrs.alias
        /\ At(items, selected_item).properties = ReturnedProperties
        /\ "crs" \notin DOMAIN At(items, selected_item).properties
        /\ \A k \in DOMAIN ReturnedProperties :
                da.attrs.dict[k] = ReturnedProperties[k]

\* The crs attribute has been set on the array after the properties were
\* attached.
C21_Witness ==
    /\ Attached
    /\ pc = "hvplotgeo"
    /\ DOMAIN da.attrs.dict = DOMAIN ReturnedProperties \cup {"crs"}

\* C22: the preview selector has one option for each returned item, keyed by
\* (index, item id) and valued with that index, in 0..len(items)-1; a selection
\* exists only when the search returned two items or more and then names an
\* item of the result, which is the item that is loaded; with fewer than two
\* items the run ends with IndexError at the selection and nothing is loaded.
C22_LoadedItemIsASearchResult ==
    Searched =>
        /\ Cardinality(DOMAIN item_id) = Len(items)
        /\ \A key \in DOMAIN item_id :
                /\ item_id[key] \in 0..(Len(items) - 1)
                /\ key = <<item_id[key], At(items, item_id[key]).id>>
        /\ \A i \in 0..(Len(items) - 1) : \E key \in DOMAIN item_id : item_id[key] = i
        /\ selected_item # NoIndex =>
                /\ Len(items) >= 2
                /\ selected_item \in 0..(Len(items) - 1)
        /\ ds # Unbound =>
                /\ selected_item # NoIndex
                /\ ds.source = At(items, selected_item).id
        /\ (Len(items) < 2 /\ pc # "preview") =>
                /\ pc = "failed"
                /\ err = "IndexError"
                /\ selected_item = NoIndex
                /\ ds = Unbound

\* Three items were returned, the reader has looked at the last one, and the
\* item at index 1 has been loaded.
C22_Witness ==
    /\ Searched
    /\ Len(items) = 3
    /\ item_sel = 2
    /\ ds # Unbound
    /\ selected_item = 1

\* The bands cell has run on the selected item.
BandsCollected == nb = "geo" /\ selected_item # NoIndex /\ pc # "bands"

\* The assets of the selected item that have a descriptor, in asset order.
AssetsWithBands ==
    SelectSeq(AssetOrder,
              LAMBDA a : /\ At(items, selected_item).extra_fields[a].has_eo
                         /\ At(items, selected_item).extra_fields[a].eo_bands # <<>>)

\* C23: the list the bands cell collects has one row for each asset of the
\* selected item that has an "eo:bands" descriptor, in asset order, and the
\* row is the first descriptor of that asset; an asset with no "eo:bands" or
\* with an empty list adds no row and does not end the loop, every asset is
\* visited, and the list is never longer than the assets.
C23_FirstDescriptorOfEachBandAsset ==
    BandsCollected =>
        /\ Len(assets) = Len(AssetsWithBands)
        /\ \A r \in 1..Len(assets) :
                assets[r] =
                    At(items, selected_item).extra_fields[AssetsWithBands[r]].eo_bands[1]
        /\ Len(assets) <= Len(AssetOrder)
        /\ swallowed = Len(AssetOrder) - Len(assets)
        /\ bands # Unbound =>
                bands.rows = [r \in 1..Len(assets) |-> assets[r].name]

\* An asset with two descriptors has given its first, and an asset with none
\* has been passed over.
C23_Witness ==
    /\ BandsCollected
    /\ swallowed > 0
    /\ \E a \in AssetNames :
            Len(At(items, selected_item).extra_fields[a].eo_bands) > 1
    /\ bands # Unbound

====
